---- MODULE Spec2Model ----
(***************************************************************************)
(* Model of python/setup.py of MuJoCo MPC: the setuptools commands that    *)
(* generate the gRPC bindings, stage the task assets and the agent_service *)
(* binary, and drive CMake.                                                *)
(*                                                                         *)
(* A path is a sequence of components; an absolute path starts with "/".   *)
(* The filesystem is a record [files, dirs]: files maps the path of every  *)
(* regular file to its content (a sequence of strings), dirs is the set of *)
(* directories.  Every filesystem operation and subprocess call of a       *)
(* command is one op of the command's program; Exec interprets a program   *)
(* and stops at the first op that raises.                                  *)
(***************************************************************************)
EXTENDS Integers, Sequences, FiniteSets, TLC

VARIABLES
  cwd,          \* working directory of the process (an absolute path)
  platform_system, \* platform.system()
  environ,      \* os.environ restricted to ARCHFLAGS: a function with domain \subseteq {"ARCHFLAGS"}
  build_lib,    \* finalized build_lib option of the commands build_py and build_ext
  fs,           \* the filesystem
  plan,         \* top-level commands the packaging lifecycle still has to run
  plan0,        \* the commands this invocation was started with
  hook,         \* top-level command being run, or "none"
  idx,          \* position in the running command's list of sub-commands
  hstate,       \* per top-level command: "Start", "Running", "Done" or "Failed"
  status,       \* of the invocation: "running", "done" or "failed"
  log,          \* events of this invocation, in order
  invocations,  \* number of invocations started
  prev          \* the previous invocation: its plan, status and final filesystem

vars == <<cwd, platform_system, environ, build_lib, fs, plan, plan0, hook, idx,
          hstate, status, log, invocations, prev>>

\* Number of invocations of setup.py in one behaviour.
MaxInvocations == 2

-----------------------------------------------------------------------------
(* Paths (pathlib)                                                          *)

Parent(p) == IF Len(p) <= 1 THEN p ELSE SubSeq(p, 1, Len(p) - 1)

Name(p) == p[Len(p)]

IsAbsolute(p) == p # <<>> /\ p[1] = "/"

IsUnder(p, d) == Len(d) < Len(p) /\ SubSeq(p, 1, Len(d)) = d

relative_to(p, d) == SubSeq(p, Len(d) + 1, Len(p))

RECURSIVE Normalize(_, _)
Normalize(done, rest) ==
  IF rest = <<>> THEN done
  ELSE IF Head(rest) = ".." THEN Normalize(Parent(done), Tail(rest))
  ELSE IF Head(rest) = "." THEN Normalize(done, Tail(rest))
  ELSE Normalize(Append(done, Head(rest)), Tail(rest))

\* Path.resolve(): a relative path is taken from the working directory.
resolve(p) == IF IsAbsolute(p) THEN Normalize(<<"/">>, Tail(p)) ELSE Normalize(cwd, p)

\* __file__ of setup.py (absolute, as setuptools.build_meta and Python >= 3.9 give it).
ScriptFile == <<"/", "repo", "python", "setup.py">>

\* The extension of a file name, for the names that occur in the model.
Suffix(n) ==
  CASE n = "task.xml" -> ".xml"
    [] n = "common.xml" -> ".xml"
    [] n = "notes.txt" -> ".txt"
    [] n = "xml" -> ""
    [] n = "agent.proto" -> ".proto"
    [] n = "agent.py" -> ".py"
    [] n = "__init__.py" -> ".py"
    [] OTHER -> ""

\* fnmatch of a file name against the pattern "*.xml".
MatchesXml(n) == Suffix(n) = ".xml"

-----------------------------------------------------------------------------
(* Filesystem                                                               *)

Exists(f, p) == p \in DOMAIN f.files \/ p \in f.dirs

\* Path.mkdir(parents=True, exist_ok=True)
mkdir(f, p) == [f EXCEPT !.dirs = @ \cup {SubSeq(p, 1, k) : k \in 1..Len(p)}]

\* shutil.copy(src, dst): into dst itself, or into dst/<name of src> when dst is a directory.
CopyTarget(f, src, dst) == IF dst \in f.dirs THEN Append(dst, Name(src)) ELSE dst

CanCopy(f, src, dst) ==
  /\ src \in DOMAIN f.files
  /\ Parent(CopyTarget(f, src, dst)) \in f.dirs

\* Mutant: a destination that exists is kept.
shutil_copy_KeepExisting(f, src, dst) ==
  [f EXCEPT !.files = @ @@ (CopyTarget(f, src, dst) :> f.files[src])]

\* Mutant: the destination is opened for appending.
shutil_copy_Append(f, src, dst) ==
  [f EXCEPT !.files =
     (CopyTarget(f, src, dst) :>
        (IF CopyTarget(f, src, dst) \in DOMAIN f.files
         THEN f.files[CopyTarget(f, src, dst)] \o f.files[src]
         ELSE f.files[src]))
     @@ @]

\* Mutant: the file is moved, not copied.
shutil_copy_Move(f, src, dst) ==
  [f EXCEPT !.files =
     [p \in (DOMAIN f.files \cup {CopyTarget(f, src, dst)}) \ ({src} \ {CopyTarget(f, src, dst)}) |->
        IF p = CopyTarget(f, src, dst) THEN f.files[src] ELSE f.files[p]]]

shutil_copy(f, src, dst) ==
  [f EXCEPT !.files = (CopyTarget(f, src, dst) :> f.files[src]) @@ @]

\* Path.rglob("*.xml") under d.
rglob_xml(f, d) == {p \in DOMAIN f.files : IsUnder(p, d) /\ MatchesXml(Name(p))}

-----------------------------------------------------------------------------
(* Ops and events.  An op is one filesystem operation, subprocess call or   *)
(* step boundary of a command; the log holds the ops that were executed.    *)
(*   start      the step begins; dst is its resolved staging root           *)
(*   require    raise err unless src exists                                 *)
(*   mkdir      create dst and its parents                                  *)
(*   copy       shutil.copy(src, dst)                                       *)
(*   spawn      run argv; rc is the exit status; raise err unless rc = 0    *)
(*   super_run  the base class's build_py.run()                             *)
(*   end        the step has completed                                      *)
(*   raise      an exception (err) left the step                            *)

Op(o, step, src, dst, argv, rc, err) ==
  [op |-> o, step |-> step, src |-> src, dst |-> dst, argv |-> argv, rc |-> rc, err |-> err]

StartOp(step, root) == Op("start", step, <<>>, root, <<>>, 0, "")
EndOp(step) == Op("end", step, <<>>, <<>>, <<>>, 0, "")
MkdirOp(step, d) == Op("mkdir", step, <<>>, d, <<>>, 0, "")
CopyOp(step, src, dst) == Op("copy", step, src, dst, <<>>, 0, "FileNotFoundError")
RequireOp(step, src, err) == Op("require", step, src, <<>>, <<>>, 0, err)
SpawnOp(step, argv, rc, err) == Op("spawn", step, <<>>, <<>>, argv, rc, err)

-----------------------------------------------------------------------------
(* External tools: what a call changes when it exits with status zero.      *)

\* The value that follows `flag` within one argument ("-I<path>").
ArgValue(argv, flag) ==
  Tail(argv[CHOOSE i \in 1..Len(argv) : argv[i] # <<>> /\ argv[i][1] = flag])

\* The argument after the argument `flag` ("--target", "agent_service").
ArgAfter(argv, flag) ==
  argv[(CHOOSE i \in 1..Len(argv) - 1 : argv[i] = <<flag>>) + 1]

IsProtoc(argv) == Len(argv) >= 3 /\ argv[3] = <<"grpc_tools.protoc">>
IsTouch(argv) == argv[1] = <<"touch">>
IsCMakeBuild(argv) == argv[1] = <<"cmake">> /\ Len(argv) >= 2 /\ argv[2] = <<"--build">>
IsCMakeConfigure(argv) == argv[1] = <<"cmake">> /\ ~IsCMakeBuild(argv)

\* protoc names its outputs after the input's path relative to the include path
\* and writes the package part of that path into the generated import.
Pb2Name(n) == IF n = "agent.proto" THEN "agent_pb2.py" ELSE "other_pb2.py"
Pb2GrpcName(n) == IF n = "agent.proto" THEN "agent_pb2_grpc.py" ELSE "other_pb2_grpc.py"

protoc_can_succeed(f, argv) ==
  LET input == argv[Len(argv)]
      include == ArgValue(argv, "-I")
  IN /\ input \in DOMAIN f.files
     /\ IsUnder(input, include)
     /\ ArgValue(argv, "--python_out=") \in f.dirs
     /\ ArgValue(argv, "--grpc_python_out=") \in f.dirs

protoc_effect(f, argv) ==
  LET input == argv[Len(argv)]
      rel == relative_to(input, ArgValue(argv, "-I"))
      pkg == Parent(rel)
      pyout == ArgValue(argv, "--python_out=") \o pkg
      grpcout == ArgValue(argv, "--grpc_python_out=") \o pkg
      g == mkdir(mkdir(f, pyout), grpcout)
  IN [g EXCEPT !.files =
        (Append(pyout, Pb2Name(Name(rel))) :> (<<"pb2">> \o f.files[input]))
        @@ (Append(grpcout, Pb2GrpcName(Name(rel))) :>
              (<<"pb2_grpc", "from">> \o pkg \o <<"import">> \o f.files[input]))
        @@ @]

touch_can_succeed(f, argv) == Parent(argv[2]) \in f.dirs

touch_effect(f, argv) ==
  IF argv[2] \in DOMAIN f.files THEN f
  ELSE [f EXCEPT !.files = (argv[2] :> <<>>) @@ @]

cmake_configure_can_succeed(f, argv) ==
  Append(ArgValue(argv, "-S"), "CMakeLists.txt") \in DOMAIN f.files

cmake_configure_effect(f, argv) ==
  LET b == ArgValue(argv, "-B")
      g == mkdir(f, b)
  IN [g EXCEPT !.files = (Append(b, "CMakeCache.txt") :> <<"cache">>) @@ @]

cmake_build_can_succeed(f, argv) == Append(argv[3], "CMakeCache.txt") \in DOMAIN f.files

\* The target is linked into <build dir>/bin (the "default mujoco_mpc/build/bin
\* folder" of CopyAgentServiceBinaryCommand's docstring).
cmake_build_effect(f, argv) ==
  LET target == ArgAfter(argv, "--target")
      bin == Append(argv[3], "bin")
      g == mkdir(f, bin)
  IN [g EXCEPT !.files = ((bin \o target) :> (<<"built">> \o target)) @@ @]

ToolCanSucceed(f, argv) ==
  CASE IsProtoc(argv) -> protoc_can_succeed(f, argv)
    [] IsTouch(argv) -> touch_can_succeed(f, argv)
    [] IsCMakeBuild(argv) -> cmake_build_can_succeed(f, argv)
    [] OTHER -> cmake_configure_can_succeed(f, argv)

ToolEffect(f, argv) ==
  CASE IsProtoc(argv) -> protoc_effect(f, argv)
    [] IsTouch(argv) -> touch_effect(f, argv)
    [] IsCMakeBuild(argv) -> cmake_build_effect(f, argv)
    [] OTHER -> cmake_configure_effect(f, argv)

\* The exit status of a call: rc when the tool can do its work, else non-zero.
ExitStatus(f, o) == IF ToolCanSucceed(f, o.argv) THEN o.rc ELSE 1

\* Mutant: the exit status is not looked at (subprocess.call).
check_call_Unchecked(rc) == FALSE

\* subprocess.check_call and Command.spawn: TRUE when the call raises, which is on
\* a non-zero exit status.
check_call(rc) == rc # 0

\* build_py.build_py.run(): copies the package's modules, found from the working
\* directory, into the build_py build_lib.
super_run_effect(f, o) ==
  IF o.src \in DOMAIN f.files
  THEN shutil_copy(mkdir(f, Parent(o.dst)), o.src, o.dst)
  ELSE f

Raises(f, o) ==
  CASE o.op = "require" -> ~Exists(f, o.src)
    [] o.op = "copy" -> ~CanCopy(f, o.src, o.dst)
    [] o.op = "spawn" -> check_call(ExitStatus(f, o))
    [] OTHER -> FALSE

Effect(f, o) ==
  CASE o.op = "mkdir" -> mkdir(f, o.dst)
    [] o.op = "copy" -> shutil_copy(f, o.src, o.dst)
    [] o.op = "spawn" -> ToolEffect(f, o.argv)
    [] o.op = "super_run" -> super_run_effect(f, o)
    [] OTHER -> f

\* Runs the ops in order from filesystem f; the first op that raises ends the run.
RECURSIVE Exec(_, _, _)
Exec(f, ops, evs) ==
  IF ops = <<>> THEN [fs |-> f, evs |-> evs, err |-> ""]
  ELSE
    LET o == Head(ops) IN
    IF Raises(f, o)
    THEN [fs |-> f,
          evs |-> (IF o.op = "spawn" THEN Append(evs, [o EXCEPT !.rc = ExitStatus(f, o)]) ELSE evs)
                  \o <<[o EXCEPT !.op = "raise"]>>,
          err |-> o.err]
    ELSE Exec(Effect(f, o), Tail(ops), Append(evs, o))

-----------------------------------------------------------------------------
(* The commands of setup.py                                                 *)

\* finalize_options: set_undefined_options(<command>, ("build_lib", "build_lib")).
finalize_options(cmd) ==
  CASE cmd = "generate_proto_grpc" -> build_lib["build_py"]
    [] cmd = "copy_agent_service_binary" -> build_lib["build_py"]
    [] cmd = "copy_task_assets" -> build_lib["build_ext"]

\* Path(self.build_lib).resolve()
build_lib_path(cmd) == resolve(finalize_options(cmd))

(* GenerateProtoGrpcCommand.run *)
agent_proto_filename == "agent.proto"

agent_proto_source_path == resolve(<<"..", "grpc", agent_proto_filename>>)

proto_module_relative_path == <<"mujoco_mpc", "proto", agent_proto_filename>>

agent_proto_destination_path ==
  build_lib_path("generate_proto_grpc") \o proto_module_relative_path

\* Mutant: the compiler is given the IDL file where it lies in the source tree.
protoc_command_parts_InPlace ==
  << <<"-I">> \o build_lib_path("generate_proto_grpc"),
     <<"--python_out=">> \o build_lib_path("generate_proto_grpc"),
     <<"--grpc_python_out=">> \o build_lib_path("generate_proto_grpc"),
     agent_proto_source_path >>

protoc_command_parts ==
  << <<"-I">> \o build_lib_path("generate_proto_grpc"),
     <<"--python_out=">> \o build_lib_path("generate_proto_grpc"),
     <<"--grpc_python_out=">> \o build_lib_path("generate_proto_grpc"),
     agent_proto_destination_path >>

\* Mutant: the package marker is created before the compiler is run.
GenerateProtoGrpcCommand_run_TouchFirst(rcProtoc, rcTouch) ==
  << StartOp("GenerateBindings", build_lib_path("generate_proto_grpc")),
     MkdirOp("GenerateBindings", Parent(agent_proto_destination_path)),
     CopyOp("GenerateBindings", agent_proto_source_path, agent_proto_destination_path),
     SpawnOp("GenerateBindings",
             << <<"touch">>, Append(Parent(agent_proto_destination_path), "__init__.py") >>,
             rcTouch, "DistutilsExecError"),
     SpawnOp("GenerateBindings",
             << <<"python">>, <<"-m">>, <<"grpc_tools.protoc">> >> \o protoc_command_parts,
             rcProtoc, "DistutilsExecError"),
     EndOp("GenerateBindings") >>

GenerateProtoGrpcCommand_run(rcProtoc, rcTouch) ==
  << StartOp("GenerateBindings", build_lib_path("generate_proto_grpc")),
     MkdirOp("GenerateBindings", Parent(agent_proto_destination_path)),
     CopyOp("GenerateBindings", agent_proto_source_path, agent_proto_destination_path),
     SpawnOp("GenerateBindings",
             << <<"python">>, <<"-m">>, <<"grpc_tools.protoc">> >> \o protoc_command_parts,
             rcProtoc, "DistutilsExecError"),
     SpawnOp("GenerateBindings",
             << <<"touch">>, Append(Parent(agent_proto_destination_path), "__init__.py") >>,
             rcTouch, "DistutilsExecError"),
     EndOp("GenerateBindings") >>

(* CopyAgentServiceBinaryCommand.run *)
\* Path("../build/bin/agent_service"), which the OS takes from the working directory.
source_path == <<"..", "build", "bin", "agent_service">>

destination_path ==
  build_lib_path("copy_agent_service_binary") \o <<"mujoco_mpc", "mjpc", "agent_service">>

CopyAgentServiceBinaryCommand_run ==
  << StartOp("StageBinaryArtifact", build_lib_path("copy_agent_service_binary")),
     RequireOp("StageBinaryArtifact", resolve(source_path), "ValueError"),
     MkdirOp("StageBinaryArtifact", Parent(destination_path)),
     CopyOp("StageBinaryArtifact", resolve(source_path), destination_path),
     EndOp("StageBinaryArtifact") >>

(* CopyTaskAssetsCommand.run *)
mjpc_tasks_path == Parent(Parent(ScriptFile)) \o <<"mjpc", "tasks">>

source_paths(f) == rglob_xml(f, mjpc_tasks_path)

relative_source_path(p) == relative_to(p, mjpc_tasks_path)

destination_dir_path == build_lib_path("copy_task_assets") \o <<"mujoco_mpc", "mjpc", "tasks">>

\* The sequences that list every element of S once: rglob's order is the OS's.
Orders(S) ==
  {o \in [1..Cardinality(S) -> S] : \A i, j \in 1..Cardinality(S) : o[i] = o[j] => i = j}

\* The body of the loop over zip(source_paths, relative_source_paths).
\* Mutant: the asset is copied without creating the directory it goes into.
CopyAsset_NoMkdir(p) ==
  << CopyOp("StageAssets", p, destination_dir_path \o relative_source_path(p)) >>

CopyAsset(p) ==
  << MkdirOp("StageAssets", Parent(destination_dir_path \o relative_source_path(p))),
     CopyOp("StageAssets", p, destination_dir_path \o relative_source_path(p)) >>

RECURSIVE CopyAssets(_)
CopyAssets(order) ==
  IF order = <<>> THEN <<>> ELSE CopyAsset(Head(order)) \o CopyAssets(Tail(order))

\* Mutant: an asset directory that does not exist is an error.
CopyTaskAssetsCommand_run_RequireAssets(order) ==
  << StartOp("StageAssets", build_lib_path("copy_task_assets")),
     RequireOp("StageAssets", mjpc_tasks_path, "FileNotFoundError") >>
  \o CopyAssets(order)
  \o << EndOp("StageAssets") >>

CopyTaskAssetsCommand_run(order) ==
  << StartOp("StageAssets", build_lib_path("copy_task_assets")) >>
  \o CopyAssets(order)
  \o << EndOp("StageAssets") >>

(* BuildPyCommand.run *)
\* Mutant: the assets are staged before the bindings are generated.
BuildPyCommand_run_AssetsFirst == << "copy_task_assets", "generate_proto_grpc", "super_run" >>

BuildPyCommand_run == << "generate_proto_grpc", "copy_task_assets", "super_run" >>

\* super().run() of build_py: stages the package's own modules.
build_py_super_run ==
  << StartOp("DelegateToDefaultBuild", resolve(build_lib["build_py"])),
     Op("super_run", "DelegateToDefaultBuild",
        resolve(<<"mujoco_mpc", "agent.py">>),
        resolve(build_lib["build_py"]) \o <<"mujoco_mpc", "agent.py">>, <<>>, 0, ""),
     EndOp("DelegateToDefaultBuild") >>

(* BuildCMakeExtension._configure_and_build_agent_service *)
cmake_command == "cmake"
build_cfg == "Debug"
mujoco_mpc_root == Parent(Parent(ScriptFile))
mujoco_mpc_build_dir == Append(mujoco_mpc_root, "build")

\* `token in value`: value holds token as a contiguous part.
Contains(value, token) ==
  \E i \in 0..(Len(value) - Len(token)) : SubSeq(value, i + 1, i + Len(token)) = token

RECURSIVE join(_, _)
join(sep, xs) ==
  IF xs = <<>> THEN <<>>
  ELSE IF Len(xs) = 1 THEN xs
  ELSE <<Head(xs), sep>> \o join(sep, Tail(xs))

TokenX86 == <<"-arch", " ", "x86_64">>
TokenArm == <<"-arch", " ", "arm64">>

\* Mutant: arm64 is looked for, and listed, first.
osx_archs_ArmFirst ==
  (IF Contains(environ["ARCHFLAGS"], TokenArm) THEN <<"arm64">> ELSE <<>>)
  \o (IF Contains(environ["ARCHFLAGS"], TokenX86) THEN <<"x86_64">> ELSE <<>>)

osx_archs ==
  (IF Contains(environ["ARCHFLAGS"], TokenX86) THEN <<"x86_64">> ELSE <<>>)
  \o (IF Contains(environ["ARCHFLAGS"], TokenArm) THEN <<"arm64">> ELSE <<>>)

\* Mutant: the platform is not looked at.
consults_archflags_AnyPlatform == "ARCHFLAGS" \in DOMAIN environ

consults_archflags == platform_system = "Darwin" /\ "ARCHFLAGS" \in DOMAIN environ

\* Mutant: the architecture flag is left out when no architecture was recognized.
cmake_configure_args_SkipEmpty ==
  << <<"-DCMAKE_EXPORT_COMPILE_COMMANDS:BOOL=", "TRUE">>,
     <<"-DCMAKE_BUILD_TYPE:STRING=", build_cfg>>,
     <<"-DBUILD_TESTING:BOOL=", "OFF">> >>
  \o (IF consults_archflags /\ osx_archs # <<>>
      THEN << <<"-DCMAKE_OSX_ARCHITECTURES=">> \o join(";", osx_archs) >>
      ELSE <<>>)

cmake_configure_args ==
  << <<"-DCMAKE_EXPORT_COMPILE_COMMANDS:BOOL=", "TRUE">>,
     <<"-DCMAKE_BUILD_TYPE:STRING=", build_cfg>>,
     <<"-DBUILD_TESTING:BOOL=", "OFF">> >>
  \o (IF consults_archflags
      THEN << <<"-DCMAKE_OSX_ARCHITECTURES=">> \o join(";", osx_archs) >>
      ELSE <<>>)

configure_argv ==
  << <<cmake_command>> >> \o cmake_configure_args
  \o << <<"-S">> \o resolve(mujoco_mpc_root), <<"-B">> \o resolve(mujoco_mpc_build_dir) >>

build_argv ==
  << <<cmake_command>>, <<"--build">>, resolve(mujoco_mpc_build_dir),
     <<"--target">>, <<"agent_service">>, <<"-j", "cpu_count">>,
     <<"--config">>, <<build_cfg>> >>

\* Mutant: the build step is started while the configure step is still running.
configure_and_build_agent_service_Overlapped(rcConfigure, rcBuild) ==
  << StartOp("ConfigureExternalBuild", <<>>),
     StartOp("BuildExternalTarget", <<>>),
     SpawnOp("ConfigureExternalBuild", configure_argv, rcConfigure, "CalledProcessError"),
     EndOp("ConfigureExternalBuild"),
     SpawnOp("BuildExternalTarget", build_argv, rcBuild, "CalledProcessError"),
     EndOp("BuildExternalTarget") >>

configure_and_build_agent_service(rcConfigure, rcBuild) ==
  << StartOp("ConfigureExternalBuild", <<>>),
     SpawnOp("ConfigureExternalBuild", configure_argv, rcConfigure, "CalledProcessError"),
     EndOp("ConfigureExternalBuild"),
     StartOp("BuildExternalTarget", <<>>),
     SpawnOp("BuildExternalTarget", build_argv, rcBuild, "CalledProcessError"),
     EndOp("BuildExternalTarget") >>

(* BuildCMakeExtension.run *)
\* Mutant: the binary is staged before it is configured and built.
BuildCMakeExtension_run_CopyFirst ==
  << "copy_agent_service_binary", "_configure_and_build_agent_service" >>

BuildCMakeExtension_run == << "_configure_and_build_agent_service", "copy_agent_service_binary" >>

\* cmdclass: the sub-commands a top-level command runs, in order.
cmdclass(cmd) ==
  CASE cmd = "build_py" -> BuildPyCommand_run
    [] cmd = "build_ext" -> BuildCMakeExtension_run
    [] OTHER -> <<cmd>>

-----------------------------------------------------------------------------
(* Initial states                                                           *)

\* The filesystem that holds exactly the given files (a function from path to
\* content) and the directories above them.
MkFs(files) ==
  [files |-> files,
   dirs |-> UNION {{SubSeq(p, 1, k) : k \in 1..(Len(p) - 1)} : p \in DOMAIN files}]

Union(f, g) == [files |-> g.files @@ f.files, dirs |-> f.dirs \cup g.dirs]

ScriptDir == Parent(ScriptFile)
OtherDir == <<"/", "work", "python">>

\* The checkout that holds setup.py.
RepoTree ==
  MkFs((<<"/", "repo", "CMakeLists.txt">> :> <<"project">>)
       @@ (<<"/", "repo", "grpc", "agent.proto">> :> <<"service Agent">>)
       @@ (ScriptFile :> <<"setup">>)
       @@ (<<"/", "repo", "python", "mujoco_mpc", "agent.py">> :> <<"agent">>))

AssetTree ==
  MkFs((<<"/", "repo", "mjpc", "tasks", "common.xml">> :> <<"common">>)
       @@ (<<"/", "repo", "mjpc", "tasks", "cartpole", "task.xml">> :> <<"cartpole">>)
       @@ (<<"/", "repo", "mjpc", "tasks", "cartpole", "notes.txt">> :> <<"notes">>)
       @@ (<<"/", "repo", "mjpc", "tasks", "xml">> :> <<"not an asset">>))

\* An asset directory that holds no *.xml file.
EmptyAssetTree ==
  MkFs(<<"/", "repo", "mjpc", "tasks", "README.md">> :> <<"no assets yet">>)

\* An agent_service left by an earlier build of the checkout.
PrebuiltTree ==
  MkFs((<<"/", "repo", "build", "CMakeCache.txt">> :> <<"cache">>)
       @@ (<<"/", "repo", "build", "bin", "agent_service">> :> <<"built", "earlier">>))

\* Another directory to run from, with or without files of its own beside it.
OtherTree(kind) ==
  Union([files |-> <<>>, dirs |-> {SubSeq(OtherDir, 1, k) : k \in 1..Len(OtherDir)}],
        Union(IF kind \in {"idl", "idl+bin"}
              THEN MkFs(<<"/", "work", "grpc", "agent.proto">> :> <<"service Other">>)
              ELSE MkFs(<<>>),
              IF kind = "idl+bin"
              THEN MkFs(<<"/", "work", "build", "bin", "agent_service">> :> <<"built", "elsewhere">>)
              ELSE MkFs(<<>>)))

\* What an earlier, different build left under a staging root.
StaleTree(root) ==
  MkFs((root \o <<"mujoco_mpc", "mjpc", "tasks", "common.xml">> :> <<"old common">>)
       @@ (root \o <<"mujoco_mpc", "proto", "__init__.py">> :> <<"old init">>)
       @@ (root \o <<"mujoco_mpc", "mjpc", "agent_service">> :> <<"old binary">>))

\* build_lib as the user or the build command gives it: relative or absolute.
BuildLibs == {<<"build", "lib">>, <<"/", "out", "lib">>}

TopCommands == {"build_py", "build_ext", "copy_agent_service_binary"}

\* The command lines of one invocation.
Plans ==
  {<<"build_py", "build_ext">>, <<"build_ext", "build_py">>, <<"copy_agent_service_binary">>}

FullBuild(p) == Len(p) = 2

\* Values of ARCHFLAGS, as sequences of pieces of the string.
ArchFlagValues ==
  { <<"-arch", " ", "x86_64", " ", "-arch", " ", "arm64">>,
    <<"-arch", " ", "arm64", " ", "-arch", " ", "x86_64">>,
    <<"-arch", " ", "x86_64">>,
    <<"-arch", " ", "arm64">>,
    <<"-arch", " ", "i386">>,
    <<"-arch", " ", " ", "arm64">>,
    <<>> }

Environs == {<<>>} \cup {("ARCHFLAGS" :> v) : v \in ArchFlagValues}

InitFs(c, libs) ==
  \E assets \in {"some", "none", "nodir"} :
  \E prebuilt, stale \in BOOLEAN :
  \E other \in (IF c = OtherDir THEN {"none", "idl", "idl+bin"} ELSE {"absent"}) :
    fs = Union(RepoTree,
         Union(CASE assets = "some" -> AssetTree
                 [] assets = "none" -> EmptyAssetTree
                 [] OTHER -> MkFs(<<>>),
         Union(IF prebuilt THEN PrebuiltTree ELSE MkFs(<<>>),
         Union(IF c = OtherDir THEN OtherTree(other) ELSE MkFs(<<>>),
               IF stale
               THEN Union(StaleTree(Normalize(IF IsAbsolute(libs["build_py"]) THEN <<>> ELSE c, libs["build_py"])),
                          StaleTree(Normalize(IF IsAbsolute(libs["build_ext"]) THEN <<>> ELSE c, libs["build_ext"])))
               ELSE MkFs(<<>>)))))

InitControl ==
  /\ plan0 \in Plans
  /\ plan = plan0
  /\ hook = "none"
  /\ idx = 0
  /\ hstate = [c \in TopCommands |-> "Start"]
  /\ status = "running"
  /\ log = <<>>
  /\ invocations = 1
  /\ prev = [plan |-> <<>>, status |-> "none", fs |-> MkFs(<<>>)]

\* Every working directory, staging root and tree, on one platform.
Init ==
  /\ cwd \in {ScriptDir, OtherDir}
  /\ platform_system = "Linux"
  /\ environ = <<>>
  /\ build_lib \in [{"build_py", "build_ext"} -> BuildLibs]
  /\ InitFs(cwd, build_lib)
  /\ InitControl

\* Every platform and every value of ARCHFLAGS, from the plain checkout.
InitArch ==
  /\ cwd = ScriptDir
  /\ platform_system \in {"Linux", "Darwin", "Windows"}
  /\ environ \in Environs
  /\ build_lib = [c \in {"build_py", "build_ext"} |-> <<"build", "lib">>]
  /\ fs = Union(RepoTree, AssetTree)
  /\ InitControl

-----------------------------------------------------------------------------
(* Actions                                                                  *)

\* The sub-command the running top-level command is at.
Current == IF hook = "none" THEN "none" ELSE cmdclass(hook)[idx]

Config == <<cwd, platform_system, environ, build_lib>>

\* The command's run() has returned or raised: an exception ends the invocation,
\* otherwise the top-level command goes on to its next sub-command or returns.
Step(res) ==
  /\ fs' = res.fs
  /\ log' = log \o res.evs
  /\ IF res.err # ""
     THEN /\ status' = "failed"
          /\ hstate' = [hstate EXCEPT ![hook] = "Failed"]
          /\ hook' = "none"
          /\ idx' = 0
     ELSE IF idx = Len(cmdclass(hook))
     THEN /\ status' = status
          /\ hstate' = [hstate EXCEPT ![hook] = "Done"]
          /\ hook' = "none"
          /\ idx' = 0
     ELSE /\ status' = status
          /\ hstate' = hstate
          /\ hook' = hook
          /\ idx' = idx + 1
  /\ UNCHANGED <<Config, plan, plan0, invocations, prev>>

\* The lifecycle runs the next top-level command of the command line.
RunCommand ==
  /\ status = "running"
  /\ hook = "none"
  /\ plan # <<>>
  /\ hook' = Head(plan)
  /\ idx' = 1
  /\ plan' = Tail(plan)
  /\ hstate' = [hstate EXCEPT ![Head(plan)] = "Running"]
  /\ UNCHANGED <<Config, fs, plan0, status, log, invocations, prev>>

GenerateProtoGrpc ==
  /\ Current = "generate_proto_grpc"
  /\ \E rcProtoc, rcTouch \in {0, 1} :
       Step(Exec(fs, GenerateProtoGrpcCommand_run(rcProtoc, rcTouch), <<>>))

CopyTaskAssets ==
  /\ Current = "copy_task_assets"
  /\ \E order \in Orders(source_paths(fs)) :
       Step(Exec(fs, CopyTaskAssetsCommand_run(order), <<>>))

BuildPySuper ==
  /\ Current = "super_run"
  /\ Step(Exec(fs, build_py_super_run, <<>>))

ConfigureAndBuild ==
  /\ Current = "_configure_and_build_agent_service"
  /\ \E rcConfigure, rcBuild \in {0, 1} :
       Step(Exec(fs, configure_and_build_agent_service(rcConfigure, rcBuild), <<>>))

CopyAgentServiceBinary ==
  /\ Current = "copy_agent_service_binary"
  /\ Step(Exec(fs, CopyAgentServiceBinaryCommand_run, <<>>))

\* setup() returns: every command of the command line has run.
Exit ==
  /\ status = "running"
  /\ hook = "none"
  /\ plan = <<>>
  /\ status' = "done"
  /\ UNCHANGED <<Config, fs, plan, plan0, hook, idx, hstate, log, invocations, prev>>

\* setup.py is run again, in the same environment, on the tree the last run left.
NewInvocation ==
  /\ status \in {"done", "failed"}
  /\ invocations < MaxInvocations
  /\ invocations' = invocations + 1
  /\ prev' = [plan |-> plan0, status |-> status, fs |-> fs]
  /\ plan0' \in Plans
  /\ plan' = plan0'
  /\ hook' = "none"
  /\ idx' = 0
  /\ hstate' = [c \in TopCommands |-> "Start"]
  /\ status' = "running"
  /\ log' = <<>>
  /\ UNCHANGED <<Config, fs>>

Next ==
  \/ RunCommand
  \/ GenerateProtoGrpc
  \/ CopyTaskAssets
  \/ BuildPySuper
  \/ ConfigureAndBuild
  \/ CopyAgentServiceBinary
  \/ Exit
  \/ NewInvocation

Spec == Init /\ [][Next]_vars

SpecArch == InitArch /\ [][Next]_vars

-----------------------------------------------------------------------------
(* Reading the log                                                          *)

Events == 1..Len(log)

Is(i, o, step) == log[i].op = o /\ log[i].step = step

Started(step) == \E i \in Events : Is(i, "start", step)
Ended(step) == \E i \in Events : Is(i, "end", step)
Raised(step) == \E i \in Events : Is(i, "raise", step)

EndedBefore(step, j) == \E i \in 1..(j - 1) : Is(i, "end", step)

IsSpawn(i) == log[i].op = "spawn"

\* The steps of the two sequences.
PreBuildSteps == {"GenerateBindings", "StageAssets", "DelegateToDefaultBuild"}

\* The top-level command whose sequence a step of this invocation belongs to.
SequenceOf(step) ==
  IF step \in PreBuildSteps THEN "build_py"
  ELSE IF FullBuild(plan0) THEN "build_ext"
  ELSE "copy_agent_service_binary"

-----------------------------------------------------------------------------
\* C1: in the pre-build hook every event of GenerateBindings precedes every event
\* of StageAssets, which precede every event of the default packaging step; a step
\* starts only after the step before it has ended, and the default packaging step
\* starts only when both earlier steps have ended and neither has raised.
C1_PreBuildOrder ==
  /\ \A i, j \in Events :
       \/ (log[i].step = "GenerateBindings" /\ log[j].step \in {"StageAssets", "DelegateToDefaultBuild"})
       \/ (log[i].step = "StageAssets" /\ log[j].step = "DelegateToDefaultBuild")
       => i < j
  /\ \A j \in Events :
       /\ Is(j, "start", "StageAssets") => EndedBefore("GenerateBindings", j)
       /\ Is(j, "start", "DelegateToDefaultBuild") =>
            /\ EndedBefore("GenerateBindings", j)
            /\ EndedBefore("StageAssets", j)
            /\ ~Raised("GenerateBindings")
            /\ ~Raised("StageAssets")

\* The pre-build hook has run to its end, with assets staged on the way.
C1_Witness ==
  /\ hstate["build_py"] = "Done"
  /\ Ended("DelegateToDefaultBuild")
  /\ \E i \in Events : Is(i, "copy", "StageAssets")

\* C2: in the build-extension hook the build phase is called only after the
\* configuration phase exited with status zero, for the one target agent_service,
\* and StageBinaryArtifact starts only after the build phase exited with status zero.
C2_BuildExtOrder ==
  FullBuild(plan0) =>
    \A j \in Events :
      /\ (IsSpawn(j) /\ IsCMakeBuild(log[j].argv)) =>
           /\ \E i \in 1..(j - 1) :
                IsSpawn(i) /\ IsCMakeConfigure(log[i].argv) /\ log[i].rc = 0
           /\ Cardinality({k \in 1..Len(log[j].argv) : log[j].argv[k] = <<"--target">>}) = 1
           /\ ArgAfter(log[j].argv, "--target") = <<"agent_service">>
      /\ Is(j, "start", "BuildExternalTarget") => EndedBefore("ConfigureExternalBuild", j)
      /\ Is(j, "start", "StageBinaryArtifact") =>
           /\ EndedBefore("BuildExternalTarget", j)
           /\ \E i \in 1..(j - 1) :
                IsSpawn(i) /\ IsCMakeBuild(log[i].argv) /\ log[i].rc = 0

\* The build-extension hook has run to its end.
C2_Witness ==
  /\ hstate["build_ext"] = "Done"
  /\ Ended("StageBinaryArtifact")

\* The external commands: configure, build, IDL compiler, marker creation.
ToolOf(argv) ==
  CASE IsProtoc(argv) -> "protoc"
    [] IsTouch(argv) -> "touch"
    [] IsCMakeBuild(argv) -> "build"
    [] OTHER -> "configure"

\* C3: each external command is called at most once per invocation, and a non-zero
\* exit status is the last thing the invocation does: nothing of any step follows
\* it but the exception, the invocation has failed and the sequence of the failed
\* step is not Done.
C3_FailureAborts ==
  /\ \A i, j \in Events :
       (IsSpawn(i) /\ IsSpawn(j) /\ ToolOf(log[i].argv) = ToolOf(log[j].argv)) => i = j
  /\ \A i \in Events :
       (IsSpawn(i) /\ log[i].rc # 0) =>
         /\ Len(log) = i + 1
         /\ log[i + 1].op = "raise"
         /\ status = "failed"
         /\ hook = "none"
         /\ hstate[SequenceOf(log[i].step)] = "Failed"

\* The IDL compiler has failed after the configure and build calls succeeded.
C3_Witness ==
  /\ \E i \in Events : IsSpawn(i) /\ IsProtoc(log[i].argv) /\ log[i].rc # 0
  /\ \E i \in Events : IsSpawn(i) /\ IsCMakeBuild(log[i].argv) /\ log[i].rc = 0
  /\ ~Started("StageAssets")
  /\ status = "failed"

-----------------------------------------------------------------------------
\* The compiled artifact under the native-build root: bin/agent_service under the
\* build directory that the configure and build calls are given.
NativeArtifact == mujoco_mpc_build_dir \o <<"bin", "agent_service">>

\* The transition runs StageBinaryArtifact.
RunsStageBinaryArtifact ==
  /\ Len(log') > Len(log)
  /\ log'[Len(log) + 1] = StartOp("StageBinaryArtifact", log'[Len(log) + 1].dst)

\* C4: when StageBinaryArtifact runs while the native-build root lacks
\* bin/agent_service, the step raises the missing-artifact error (ValueError) and
\* leaves the filesystem as it was.
C4_MissingArtifactFails ==
  [][(RunsStageBinaryArtifact /\ NativeArtifact \notin DOMAIN fs.files) =>
       /\ log'[Len(log')].op = "raise"
       /\ log'[Len(log')].err = "ValueError"
       /\ fs' = fs]_vars

\* The same for the file the step does look for, ../build/bin/agent_service from
\* the working directory: this holds, from every working directory.
C4_MissingFileFails ==
  [][(RunsStageBinaryArtifact /\ resolve(source_path) \notin DOMAIN fs.files) =>
       /\ log'[Len(log')].op = "raise"
       /\ log'[Len(log')].err = "ValueError"
       /\ fs' = fs]_vars

-----------------------------------------------------------------------------
\* The locations the sources have as fixed offsets from setup.py's own location.
IdlSource == Parent(Parent(ScriptFile)) \o <<"grpc", "agent.proto">>
AssetSourceTree == Parent(Parent(ScriptFile)) \o <<"mjpc", "tasks">>

\* C5: whatever the working directory, GenerateBindings reads the IDL file at its
\* fixed offset from setup.py, StageAssets reads under the asset tree at its fixed
\* offset, StageBinaryArtifact looks for the artifact under the build root the
\* configure and build calls were given, and the artifact check does not fail
\* after a build call that exited with status zero.
C5_SourcesIndependentOfCwd ==
  \A j \in Events :
    /\ (log[j].step = "GenerateBindings" /\ log[j].src # <<>>) => log[j].src = IdlSource
    /\ (log[j].step = "StageAssets" /\ log[j].src # <<>>) => IsUnder(log[j].src, AssetSourceTree)
    /\ (log[j].step = "StageBinaryArtifact" /\ log[j].src # <<>>) => log[j].src = NativeArtifact
    /\ (Is(j, "raise", "StageBinaryArtifact") /\ log[j].err = "ValueError") =>
         ~\E i \in 1..(j - 1) : IsSpawn(i) /\ IsCMakeBuild(log[i].argv) /\ log[i].rc = 0

StagingSteps == {"GenerateBindings", "StageAssets", "StageBinaryArtifact"}

\* C6: the staging steps of an invocation all use one staging root.
C6_OneStagingRoot ==
  \A i, j \in Events :
    (log[i].op = "start" /\ log[j].op = "start"
     /\ log[i].step \in StagingSteps /\ log[j].step \in StagingSteps)
    => log[i].dst = log[j].dst

-----------------------------------------------------------------------------
ArchFlags(argv) ==
  {k \in 1..Len(argv) : argv[k] # <<>> /\ argv[k][1] = "-DCMAKE_OSX_ARCHITECTURES="}

IsConfigureCall(j) == IsSpawn(j) /\ IsCMakeConfigure(log[j].argv)

\* Position of the first piece of the first occurrence of token in value.
FirstAt(value, token) ==
  CHOOSE i \in 1..Len(value) :
    /\ SubSeq(value, i, i + Len(token) - 1) = token
    /\ \A k \in 1..(i - 1) : SubSeq(value, k, k + Len(token) - 1) # token

HasBothTokens ==
  /\ "ARCHFLAGS" \in DOMAIN environ
  /\ Contains(environ["ARCHFLAGS"], TokenX86)
  /\ Contains(environ["ARCHFLAGS"], TokenArm)

\* The two architectures in the order of their tokens in ARCHFLAGS.
ArchsInTokenOrder ==
  IF FirstAt(environ["ARCHFLAGS"], TokenX86) < FirstAt(environ["ARCHFLAGS"], TokenArm)
  THEN <<"x86_64", ";", "arm64">>
  ELSE <<"arm64", ";", "x86_64">>

\* C7 as stated, on the platform that reads the variable: with both tokens in
\* ARCHFLAGS the configure call carries one architecture flag that lists the two
\* architectures in the order of their tokens.
C7_OrderPreserving ==
  \A j \in Events :
    (IsConfigureCall(j) /\ platform_system = "Darwin" /\ HasBothTokens) =>
      /\ Cardinality(ArchFlags(log[j].argv)) = 1
      /\ \A k \in ArchFlags(log[j].argv) :
           log[j].argv[k] = <<"-DCMAKE_OSX_ARCHITECTURES=">> \o ArchsInTokenOrder

\* C7 as amended: on Darwin, with both tokens in ARCHFLAGS in either order, the
\* configure call carries one architecture flag whose value is x86_64;arm64.
C7_BothArchsFixedOrder ==
  \A j \in Events :
    (IsConfigureCall(j) /\ platform_system = "Darwin" /\ HasBothTokens) =>
      /\ Cardinality(ArchFlags(log[j].argv)) = 1
      /\ \A k \in ArchFlags(log[j].argv) :
           log[j].argv[k] = <<"-DCMAKE_OSX_ARCHITECTURES=", "x86_64", ";", "arm64">>

\* The configure call has been made on Darwin with the arm64 token first.
C7_Witness ==
  /\ platform_system = "Darwin"
  /\ environ = ("ARCHFLAGS" :> <<"-arch", " ", "arm64", " ", "-arch", " ", "x86_64">>)
  /\ \E j \in Events : IsConfigureCall(j)

\* C8: off Darwin, and on Darwin without ARCHFLAGS, the configure call is cmake
\* with the three fixed options, the source root and the build root, and nothing else.
C8_ArchFlagsOnlyOnDarwin ==
  \A j \in Events :
    (IsConfigureCall(j) /\ (platform_system # "Darwin" \/ "ARCHFLAGS" \notin DOMAIN environ)) =>
      log[j].argv =
        << <<"cmake">>,
           <<"-DCMAKE_EXPORT_COMPILE_COMMANDS:BOOL=", "TRUE">>,
           <<"-DCMAKE_BUILD_TYPE:STRING=", "Debug">>,
           <<"-DBUILD_TESTING:BOOL=", "OFF">>,
           <<"-S", "/", "repo">>,
           <<"-B", "/", "repo", "build">> >>

\* The configure call has been made on Linux with both tokens in ARCHFLAGS.
C8_Witness ==
  /\ platform_system = "Linux"
  /\ HasBothTokens
  /\ \E j \in Events : IsConfigureCall(j)

-----------------------------------------------------------------------------
\* The staging root of a step: its command's finalized build_lib, resolved.
StagingRootOf(step) ==
  CASE step = "GenerateBindings" -> build_lib_path("generate_proto_grpc")
    [] step = "StageAssets" -> build_lib_path("copy_task_assets")
    [] step = "StageBinaryArtifact" -> build_lib_path("copy_agent_service_binary")

HasXmlExtension(p) == Suffix(Name(p)) = ".xml"

\* Where a file of the asset tree is staged.
AssetDestination(p) ==
  StagingRootOf("StageAssets") \o <<"mujoco_mpc", "mjpc", "tasks">>
  \o SubSeq(p, Len(AssetSourceTree) + 1, Len(p))

HoldsContentOf(dst, src) ==
  /\ src \in DOMAIN fs.files
  /\ dst \in DOMAIN fs.files
  /\ fs.files[dst] = fs.files[src]

\* C9: once StageAssets has completed, every .xml file under the asset tree has its
\* content at stagingRoot/mujoco_mpc/mjpc/tasks/<relative path>, and the step has
\* copied nothing else; once StageBinaryArtifact has completed, the binary it
\* copied has its content at stagingRoot/mujoco_mpc/mjpc/agent_service; once the
\* IDL file has been relocated, it has its content at
\* stagingRoot/mujoco_mpc/proto/agent.proto.
C9_StagedContent ==
  /\ Ended("StageAssets") =>
       \A p \in DOMAIN fs.files :
         (IsUnder(p, AssetSourceTree) /\ HasXmlExtension(p)) =>
           /\ HoldsContentOf(AssetDestination(p), p)
           /\ \E j \in Events : Is(j, "copy", "StageAssets") /\ log[j].src = p
  /\ \A j \in Events :
       /\ Is(j, "copy", "StageAssets") =>
            /\ IsUnder(log[j].src, AssetSourceTree)
            /\ HasXmlExtension(log[j].src)
            /\ log[j].dst = AssetDestination(log[j].src)
       /\ Is(j, "copy", "StageBinaryArtifact") =>
            /\ Name(log[j].src) = "agent_service"
            /\ log[j].dst = StagingRootOf("StageBinaryArtifact")
                            \o <<"mujoco_mpc", "mjpc", "agent_service">>
            /\ HoldsContentOf(log[j].dst, log[j].src)
       /\ Is(j, "copy", "GenerateBindings") =>
            /\ Name(log[j].src) = "agent.proto"
            /\ log[j].dst = StagingRootOf("GenerateBindings")
                            \o <<"mujoco_mpc", "proto", "agent.proto">>
            /\ HoldsContentOf(log[j].dst, log[j].src)
  /\ Ended("StageBinaryArtifact") => \E j \in Events : Is(j, "copy", "StageBinaryArtifact")
  /\ Ended("GenerateBindings") => \E j \in Events : Is(j, "copy", "GenerateBindings")

\* All three steps have completed, over a staging tree that held other content
\* at the destinations, with files of both kinds in the asset tree.
C9_Witness ==
  /\ Ended("GenerateBindings")
  /\ Ended("StageAssets")
  /\ Ended("StageBinaryArtifact")
  /\ Cardinality({j \in Events : Is(j, "copy", "StageAssets")}) = 2
  /\ <<"/", "repo", "mjpc", "tasks", "cartpole", "notes.txt">> \in DOMAIN fs.files
  /\ prev.status = "none"
  /\ \E p \in DOMAIN StaleTree(StagingRootOf("StageAssets")).files :
       p \in DOMAIN fs.files /\ fs.files[p] # <<"old common">>

-----------------------------------------------------------------------------
StagingRoots == {resolve(build_lib[c]) : c \in DOMAIN build_lib}

\* The staging tree of a filesystem: the files and directories under the staging roots.
StagingTree(f) ==
  [files |-> [p \in {q \in DOMAIN f.files : \E r \in StagingRoots : IsUnder(q, r)} |-> f.files[p]],
   dirs |-> {d \in f.dirs : \E r \in StagingRoots : d = r \/ IsUnder(d, r)}]

\* A step taken alone, twice, leaves what it leaves when taken once.
IdempotentOn(f, ops) ==
  LET once == Exec(f, ops, <<>>) IN
  once.err = "" => Exec(once.fs, ops, <<>>).fs = once.fs

\* C10: a full build that succeeds right after a full build that succeeded leaves
\* the staging tree (files, contents, directories) as the first one left it; and
\* from every reachable filesystem each staging step run twice leaves what one run leaves.
C10_Idempotent ==
  /\ (status = "done" /\ FullBuild(plan0) /\ prev.status = "done" /\ FullBuild(prev.plan)) =>
       StagingTree(fs) = StagingTree(prev.fs)
  /\ IdempotentOn(fs, GenerateProtoGrpcCommand_run(0, 0))
  /\ IdempotentOn(fs, CopyAgentServiceBinaryCommand_run)
  /\ \A order \in Orders(source_paths(fs)) : IdempotentOn(fs, CopyTaskAssetsCommand_run(order))

\* A second full build has succeeded after a first one that staged the bindings,
\* two assets and the binary.
C10_Witness ==
  /\ status = "done"
  /\ FullBuild(plan0)
  /\ prev.status = "done"
  /\ FullBuild(prev.plan)
  /\ Cardinality({j \in Events : Is(j, "copy", "StageAssets")}) = 2
  /\ Ended("GenerateBindings")
  /\ Ended("StageBinaryArtifact")
  /\ DOMAIN StagingTree(fs).files # {}

-----------------------------------------------------------------------------
IsProtocCall(j) == IsSpawn(j) /\ IsProtoc(log[j].argv)
IsTouchCall(j) == IsSpawn(j) /\ IsTouch(log[j].argv)

\* Where the IDL file is relocated to.
RelocatedIdl == StagingRootOf("GenerateBindings") \o <<"mujoco_mpc", "proto", "agent.proto">>

-----------------------------------------------------------------------------
SubprocessFailed == \E j \in Events : IsSpawn(j) /\ log[j].rc # 0

\* C12: an invocation of both hooks is done only when the pre-build sequence and
\* the build-extension sequence are both Done, and it fails only when a subprocess
\* exited with a non-zero status or the compiled artifact is absent from the
\* native-build root: with every status zero and the artifact present both
\* sequences run to Done.
C12_BothSequencesComplete ==
  FullBuild(plan0) =>
    /\ status = "done" => (hstate["build_py"] = "Done" /\ hstate["build_ext"] = "Done")
    /\ status = "failed" => (SubprocessFailed \/ NativeArtifact \notin DOMAIN fs.files)

\* The same for the invocations that are run from the directory of setup.py: this holds.
C12_CompleteFromScriptDir ==
  (FullBuild(plan0) /\ cwd = ScriptDir) =>
    /\ status = "done" => (hstate["build_py"] = "Done" /\ hstate["build_ext"] = "Done")
    /\ status = "failed" => SubprocessFailed

-----------------------------------------------------------------------------
AllSteps ==
  PreBuildSteps \cup {"ConfigureExternalBuild", "BuildExternalTarget", "StageBinaryArtifact"}

\* C13: at every event of an invocation at most one step is running: a step
\* starts only when no step is running (the event before, if any, is the end of a
\* step), and every directory creation, copy, subprocess call, default-build
\* write, end and raise belongs to the step whose start or earlier event comes
\* right before it, so the staging tree is written by one step at a time.
C13_NoStepOverlap ==
  \A j \in Events :
    /\ log[j].step \in AllSteps
    /\ IF log[j].op = "start"
       THEN j = 1 \/ log[j - 1].op = "end"
       ELSE /\ j > 1
            /\ log[j - 1].step = log[j].step
            /\ log[j - 1].op \notin {"end", "raise"}

C13_Witness ==
  /\ status = "done"
  /\ \A s \in AllSteps : Ended(s)
  /\ \E i, j \in Events :
       /\ log[i].op = "copy" /\ log[j].op = "copy"
       /\ log[i].step # log[j].step

-----------------------------------------------------------------------------
\* Event j is a copy, done or refused (shutil.copy raised).
IsCopyAttempt(j) ==
  \/ log[j].op = "copy"
  \/ log[j].op = "raise" /\ log[j].err = "FileNotFoundError"

PackageMarker == Append(Parent(RelocatedIdl), "__init__.py")

\* C14: every copy a staging step attempts (the IDL relocation, the binary
\* artifact, each task asset) comes after the same step has created the parent
\* directory of the copy's destination, and that directory exists, whatever the
\* staging tree held at the start.
C14_ParentCreatedBeforeCopy ==
  \A j \in Events : IsCopyAttempt(j) =>
    /\ log[j].step \in StagingSteps
    /\ Parent(log[j].dst) \in fs.dirs
    /\ \E i \in 1..(j - 1) : Is(i, "mkdir", log[j].step) /\ log[i].dst = Parent(log[j].dst)

\* The first invocation on a tree without the staging root (the marker is the
\* new empty file, not a stale one) has copied in all three staging steps.
C14_Witness ==
  /\ prev.status = "none"
  /\ \A s \in StagingSteps : \E j \in Events : Is(j, "copy", s)
  /\ PackageMarker \in DOMAIN fs.files
  /\ fs.files[PackageMarker] = <<>>

-----------------------------------------------------------------------------
\* C15: a GenerateBindings that ended leaves the relocated IDL file and the
\* package marker in <staging root>/mujoco_mpc/proto; the marker-creation command
\* is called only after a compiler call that exited with zero; and a compiler call
\* that exits non-zero is at once followed by the step's raise with the
\* generation error, with no marker-creation call and no second compiler call.
C15_MarkerOnlyAfterCompiler ==
  /\ Ended("GenerateBindings") =>
       /\ RelocatedIdl \in DOMAIN fs.files
       /\ PackageMarker \in DOMAIN fs.files
  /\ \A j \in Events : IsTouchCall(j) =>
       /\ log[j].argv = << <<"touch">>, PackageMarker >>
       /\ j > 1 /\ IsProtocCall(j - 1) /\ log[j - 1].rc = 0
  /\ \A j \in Events : (IsProtocCall(j) /\ log[j].rc # 0) =>
       /\ j = Len(log) - 1
       /\ Is(j + 1, "raise", "GenerateBindings")
       /\ log[j + 1].err = "DistutilsExecError"
       /\ status = "failed"
       /\ ~ \E i \in Events : IsTouchCall(i)
       /\ Cardinality({i \in Events : IsProtocCall(i)}) = 1

\* The step succeeded on a tree that had no marker, and the marker is there.
C15_Witness ==
  /\ Ended("GenerateBindings")
  /\ \E j \in Events : IsTouchCall(j) /\ log[j].rc = 0
  /\ PackageMarker \in DOMAIN fs.files
  /\ fs.files[PackageMarker] = <<>>
  /\ fs.files[RelocatedIdl] = fs.files[IdlSource]

\* The compiler exited non-zero and the step failed.
C15_WitnessFailure ==
  /\ \E j \in Events : IsProtocCall(j) /\ log[j].rc # 0
  /\ Raised("GenerateBindings")

-----------------------------------------------------------------------------
\* C16: when the scan of the asset tree finds no *.xml file, running StageAssets
\* changes nothing in the filesystem, raises nothing (its start is directly
\* followed by its end, and the invocation keeps running), and the pre-build
\* sequence goes on to the default packaging step.
C16_NoAssetsIsNoOp ==
  [][(Current = "copy_task_assets" /\ source_paths(fs) = {}) =>
       /\ fs' = fs
       /\ status' = "running"
       /\ hstate' = hstate
       /\ Len(log') = Len(log) + 2
       /\ log'[Len(log) + 1].op = "start" /\ log'[Len(log) + 1].step = "StageAssets"
       /\ log'[Len(log) + 2].op = "end" /\ log'[Len(log) + 2].step = "StageAssets"
       /\ hook' = "build_py"
       /\ BuildPyCommand_run[idx'] = "super_run"]_vars

\* The asset directory does not exist.
C16_Witness ==
  /\ source_paths(fs) = {}
  /\ mjpc_tasks_path \notin fs.dirs
  /\ Ended("StageAssets")
  /\ ~ \E j \in Events : log[j].step = "StageAssets" /\ log[j].op \notin {"start", "end"}
  /\ Ended("DelegateToDefaultBuild")

\* The asset directory exists and holds no *.xml file.
C16_WitnessEmptyTree ==
  /\ source_paths(fs) = {}
  /\ mjpc_tasks_path \in fs.dirs
  /\ Ended("StageAssets")
  /\ Ended("DelegateToDefaultBuild")

-----------------------------------------------------------------------------
\* The values the architecture flag may take: recognized architectures only,
\* each at most once, x86_64 before arm64.
ArchLists == { <<>>, <<"x86_64">>, <<"arm64">>, <<"x86_64", ";", "arm64">> }

\* C17: on Darwin with ARCHFLAGS set, whatever its value, the configure call
\* carries exactly one architecture flag; the flag's value is one of the lists of
\* recognized architectures in the order x86_64, arm64, and it is the empty list
\* when ARCHFLAGS holds neither token.
C17_OneArchFlagForEveryValue ==
  \A j \in Events :
    (IsConfigureCall(j) /\ platform_system = "Darwin" /\ "ARCHFLAGS" \in DOMAIN environ) =>
      /\ Cardinality(ArchFlags(log[j].argv)) = 1
      /\ \A k \in ArchFlags(log[j].argv) :
           /\ Tail(log[j].argv[k]) \in ArchLists
           /\ (~Contains(environ["ARCHFLAGS"], TokenX86) /\ ~Contains(environ["ARCHFLAGS"], TokenArm))
                => log[j].argv[k] = <<"-DCMAKE_OSX_ARCHITECTURES=">>

\* The configure call has been made on Darwin with an ARCHFLAGS that names only
\* an architecture the code does not look for.
C17_Witness ==
  /\ platform_system = "Darwin"
  /\ environ = ("ARCHFLAGS" :> <<"-arch", " ", "i386">>)
  /\ \E j \in Events : IsConfigureCall(j) /\ log[j].rc = 0

-----------------------------------------------------------------------------
StagingCommands == {"generate_proto_grpc", "copy_task_assets", "copy_agent_service_binary"}

StepOfCommand(cmd) ==
  CASE cmd = "generate_proto_grpc" -> "GenerateBindings"
    [] cmd = "copy_task_assets" -> "StageAssets"
    [] cmd = "copy_agent_service_binary" -> "StageBinaryArtifact"

\* The files of the source tree in f: the IDL source, the files under the asset
\* source tree and the compiled artifact under the native-build root.
SourceFiles(f) ==
  {p \in DOMAIN f.files : p = IdlSource \/ IsUnder(p, AssetSourceTree) \/ p = NativeArtifact}

\* The files the transition created, removed or rewrote.
ChangedFiles ==
  {p \in DOMAIN fs.files \cup DOMAIN fs'.files :
     \/ p \notin DOMAIN fs.files
     \/ p \notin DOMAIN fs'.files
     \/ fs.files[p] # fs'.files[p]}

ChangedDirs == (fs'.dirs \ fs.dirs) \cup (fs.dirs \ fs'.dirs)

\* What a run of the staging step of command cmd may change.
StagingStepFrame(cmd) ==
  /\ SourceFiles(fs') = SourceFiles(fs)
  /\ \A p \in SourceFiles(fs) : fs'.files[p] = fs.files[p]
  /\ \A p \in ChangedFiles : IsUnder(p, StagingRootOf(StepOfCommand(cmd)))
  /\ \A d \in ChangedDirs :
       \/ d = StagingRootOf(StepOfCommand(cmd))
       \/ IsUnder(d, StagingRootOf(StepOfCommand(cmd)))
       \/ IsUnder(StagingRootOf(StepOfCommand(cmd)), d)

\* C18: a run of a staging step, whether it ends or raises, leaves the IDL source
\* file, every file under the asset source tree and the compiled artifact under
\* the native-build root as they were, in existence and in content; every file it
\* writes lies under the step's staging root, and every directory it makes is the
\* staging root, a missing ancestor of it, or a directory under it.
C18_SourceTreeUnchanged ==
  [][(Current \in StagingCommands) => StagingStepFrame(Current)]_vars

\* GenerateBindings and StageAssets have copied, StageBinaryArtifact has raised,
\* and the sources are in place.
C18_Witness ==
  /\ Ended("GenerateBindings")
  /\ \E j \in Events : Is(j, "copy", "StageAssets")
  /\ Ended("StageAssets")
  /\ Raised("StageBinaryArtifact")
  /\ IdlSource \in DOMAIN fs.files
  /\ NativeArtifact \in DOMAIN fs.files
  /\ \E p \in DOMAIN fs.files : IsUnder(p, AssetSourceTree)

====
